---- MODULE Spec2Model ----
(***************************************************************************)
(* The order store of rust-IAB: src/src/db.rs (create_order, get_order,    *)
(* list_orders, update_status, delete_order over                           *)
(* Arc<RwLock<HashMap<Uuid, Order>>>), with the validation rules of        *)
(* src/src/order_dtos.rs.  Request tasks run concurrently; each store      *)
(* operation is split at its suspension point, the `.await` on the lock.   *)
(***************************************************************************)
EXTENDS Integers, Sequences, FiniteSets, TLC

\* ---------------------------------------------------------------- bounds
\* Number of concurrently running request tasks.
NumTasks == 2
\* Size of the identifier space Uuid::new_v4() draws from.
NumUuid == 2
\* Number of store operations called over a run.
MaxCalls == 3

Task == 1 .. NumTasks
Uuid == 1 .. NumUuid
\* The id field of a request that carries no id.
NoId == 0

\* ---------------------------------------------------------------- inputs
\* customer strings of create requests (String: any text, also the empty one).
Customers == {"", "Alice"}
\* items vectors of create requests (Vec<String>: order matters).
ItemSeqs == {<< >>, <<"A", "B">>, <<"B", "A">>}
\* status strings of update requests: the four permitted ones and two that are not.
StatusInputs == {"pending", "shipped", "delivered", "cancelled", "queued", "Pending"}

VARIABLES
    map,        \* the HashMap<Uuid, Order>: a function from the stored ids to orders
    readers,    \* tasks holding the RwLock in shared mode
    writers,    \* tasks holding the RwLock in exclusive mode
    waiters,    \* tasks suspended in db.read().await / db.write().await, in arrival order
    pc,         \* per task: "idle", "wait" (suspended on the lock) or "locked"
    req,        \* per task: the operation being run and its arguments / locals
    done,       \* the request answered in the last step, if one was: its task, request,
                \* result and HTTP response, and the map as it was before that step
    generated,  \* ids Uuid::new_v4() has produced so far
    ncalls,     \* number of operations called so far
    hist,       \* observer's record of the responses seen so far (never read by an operation)
    lin         \* observer's reference store: the operations run one at a time, each when
                \* it is granted the lock (never read by an operation)

vars == <<map, readers, writers, waiters, pc, req, done, generated, ncalls, hist, lin>>

\* ---------------------------------------------------------------- models.rs / order_dtos.rs
Order(id, customer, items, status) ==
    [id |-> id, customer |-> customer, items |-> items, status |-> status]

\* impl From<Order> for OrderResponseDto: a field-by-field projection.
OrderResponseDto_from(o) ==
    [id |-> o.id, customer |-> o.customer, items |-> o.items, status |-> o.status]

\* Mutant of length_min_1: the bound off by one, length(min = 0).
length_min_0(v) == Len(v) >= 0

\* #[validate(length(min = 1, ...))]
length_min_1(v) == Len(v) >= 1

\* Mutant of CreateOrderDto_validate: validation stops at the first rule that fails.
CreateOrderDto_validate_first(data) ==
    IF ~length_min_1(data.customer)
    THEN {<<"customer", "customer name must not be empty">>}
    ELSE IF ~length_min_1(data.items)
         THEN {<<"items", "at least one item required">>}
         ELSE {}

\* CreateOrderDto::validate: the set of <<field, message>> failures, every rule is run.
CreateOrderDto_validate(data) ==
    (IF length_min_1(data.customer) THEN {}
        ELSE {<<"customer", "customer name must not be empty">>})
    \cup
    (IF length_min_1(data.items) THEN {}
        ELSE {<<"items", "at least one item required">>})

\* STATUS_REGEX = ^(pending|shipped|delivered|cancelled)$ : an anchored alternation,
\* so is_match holds exactly on the whole-string alternatives.
STATUS_REGEX_alternatives == {"pending", "shipped", "delivered", "cancelled"}

STATUS_REGEX_is_match(s) == \E alt \in STATUS_REGEX_alternatives : s = alt

\* UpdateStatusDto::validate
UpdateStatusDto_validate(data) ==
    IF STATUS_REGEX_is_match(data.status) THEN {}
    ELSE {<<"status", "invalid status">>}

\* ---------------------------------------------------------------- results
NoErrors == {}
RetNone == [tag |-> "None", val |-> << >>, errs |-> NoErrors]
\* Ok(dto), Ok(()) and the Vec of list_orders: val is the sequence of dtos returned.
Ok(val) == [tag |-> "Ok", val |-> val, errs |-> NoErrors]
NotFound == [tag |-> "NotFound", val |-> << >>, errs |-> NoErrors]
Validation(errs) == [tag |-> "Validation", val |-> << >>, errs |-> errs]

BadRequest(msg) == [tag |-> "BadRequest", val |-> << >>, errs |-> NoErrors, msg |-> msg]
Internal == [tag |-> "Internal", val |-> << >>, errs |-> NoErrors]
\* The request never reached its handler: an extractor of the handler refused it.
Dropped(at) == [tag |-> "Dropped", val |-> << >>, errs |-> NoErrors, at |-> at]

Rejected(by) == [tag |-> "Rejected", val |-> << >>, errs |-> NoErrors, by |-> by]

\* ---------------------------------------------------------------- errors.rs / routes.rs
\* An HTTP response: status code, kind of body ("json", "text" or "empty"), and for a
\* json error body its message and details, for a json success body the dtos.
Response(code, kind, message, details, body) ==
    [code |-> code, kind |-> kind, message |-> message, details |-> details, body |-> body]

NoResponse == Response(0, "none", "", [null |-> TRUE, fields |-> << >>], << >>)

\* details: None
DetailsNull == [null |-> TRUE, fields |-> << >>]

\* The elements of a finite set as a sequence.
SeqOf(S) ==
    LET n == Cardinality(S)
    IN  CHOOSE f \in [1 .. n -> S] : \A i, j \in 1 .. n : f[i] = f[j] => i = j

\* details: Some(map) of ApiError::Validation: field_errors() gives, for each field
\* that failed, its errors; every error of these dtos carries a message.
DetailsOf(errs) ==
    [null |-> FALSE,
     fields |-> [f \in {e[1] : e \in errs} |-> SeqOf({e[2] : e \in {d \in errs : d[1] = f}})]]

\* Mutant of ApiError_into_response: Validation answered 422 Unprocessable Entity.
ApiError_into_response_422(e) ==
    CASE e.tag = "NotFound" -> Response(404, "json", "Order not found", DetailsNull, << >>)
      [] e.tag = "BadRequest" ->
            Response(400, "json", "Invalid input: " \o e.msg, DetailsNull, << >>)
      [] e.tag = "Validation" ->
            Response(422, "json", "Validation failed", DetailsOf(e.errs), << >>)
      [] e.tag = "Internal" ->
            Response(500, "json", "Internal server error", DetailsNull, << >>)

\* impl IntoResponse for ApiError (errors.rs 24-71).
ApiError_into_response(e) ==
    CASE e.tag = "NotFound" -> Response(404, "json", "Order not found", DetailsNull, << >>)
      [] e.tag = "BadRequest" ->
            Response(400, "json", "Invalid input: " \o e.msg, DetailsNull, << >>)
      [] e.tag = "Validation" ->
            Response(400, "json", "Validation failed", DetailsOf(e.errs), << >>)
      [] e.tag = "Internal" ->
            Response(500, "json", "Internal server error", DetailsNull, << >>)

\* What axum answers when an extractor of a handler refuses the request; routes.rs
\* takes Path<Uuid> and Json<..> as they are and maps no rejection to ApiError, so the
\* answer is the extractor's own: a plain-text body, 400 for a path segment that is no
\* UUID, and 400, 415 or 422 for a body that is no JSON of the dto (bad syntax, missing
\* content type, wrong or missing fields).
extractor_rejections(by) ==
    IF by = "path"
    THEN {Response(400, "text", "Invalid URL", DetailsNull, << >>)}
    ELSE {Response(c, "text", "Failed to parse the request body", DetailsNull, << >>) :
            c \in {400, 415, 422}}

\* A handler of routes.rs turning the result of its store operation into the response:
\* Ok(Json(order)) / Ok(Json(list)) / Ok(()) are 200, Err(e) is e.into_response().
handler_response(op, x) ==
    IF x.tag = "Ok"
    THEN Response(200, IF op = "delete" THEN "empty" ELSE "json", "", DetailsNull, x.val)
    ELSE ApiError_into_response(x)

\* ---------------------------------------------------------------- HashMap
HashMap_new == << >>

HashMap_contains(m, id) == id \in DOMAIN m

\* insert replaces the value of a key already present.
HashMap_insert(m, id, o) == [k \in DOMAIN m \cup {id} |-> IF k = id THEN o ELSE m[k]]

HashMap_remove(m, id) == [k \in DOMAIN m \ {id} |-> m[k]]

\* values(): every stored order once, in an iteration order the map chooses.
HashMap_values(m) ==
    LET n == Cardinality(DOMAIN m)
        orders == {f \in [1 .. n -> DOMAIN m] : \A i, j \in 1 .. n : f[i] = f[j] => i = j}
    IN  {[i \in 1 .. n |-> m[f[i]]] : f \in orders}

\* ---------------------------------------------------------------- db.rs: the pure parts
\* Uuid::new_v4(): version-4 ids are random 122-bit values; the generator is modelled
\* as never producing the same id twice.
Uuid_new_v4 == Uuid \ generated

\* Uuid::new_v4() with nothing assumed of the random bits: any id may be drawn, also
\* one drawn before.
Uuid_new_v4_any == Uuid

\* Mutant of create_order_order: the status left at String::default().
create_order_order_default_status(id, data) == Order(id, data.customer, data.items, "")

\* create_order, the Order built from the validated dto.
create_order_order(id, data) == Order(id, data.customer, data.items, "pending")

\* Mutant of update_status_early: `data.validate()?` left out.
update_status_early_unvalidated(m, id, data) == RetNone

\* Mutant of update_status_early: the lookup done before the validation.
update_status_early_lookup_first(m, id, data) ==
    LET errs == UpdateStatusDto_validate(data)
    IN  IF ~HashMap_contains(m, id) THEN NotFound
        ELSE IF errs # NoErrors THEN Validation(errs) ELSE RetNone

\* update_status, the early return of `data.validate()?`: it reads the dto alone,
\* not the map; RetNone when the operation goes on.
update_status_early(m, id, data) ==
    LET errs == UpdateStatusDto_validate(data)
    IN  IF errs # NoErrors THEN Validation(errs) ELSE RetNone

\* Mutant of create_order_early: the items rule missing from the dto.
create_order_early_customer_only(data) ==
    IF length_min_1(data.customer) THEN RetNone
    ELSE Validation({<<"customer", "customer name must not be empty">>})

\* create_order, the early return of `data.validate()?`.
create_order_early(data) ==
    LET errs == CreateOrderDto_validate(data)
    IN  IF errs # NoErrors THEN Validation(errs) ELSE RetNone

\* create_order under the write lock: map.insert(order.id, order.clone()).
create_order_map(m, order) == HashMap_insert(m, order.id, order)

create_order_ret(m, order) == Ok(<<OrderResponseDto_from(order)>>)

\* get_order: get(&id).cloned().map(OrderResponseDto::from).ok_or(NotFound).
get_order_ret(m, id) ==
    IF HashMap_contains(m, id) THEN Ok(<<OrderResponseDto_from(m[id])>>) ELSE NotFound

\* Mutant of list_orders_rets: only the orders still pending are collected.
list_orders_rets_pending(m) ==
    {Ok(SelectSeq([i \in DOMAIN v |-> OrderResponseDto_from(v[i])],
                  LAMBDA d : d.status = "pending")) : v \in HashMap_values(m)}

\* list_orders: values().cloned().map(OrderResponseDto::from).collect(), one result
\* per iteration order.
list_orders_rets(m) ==
    {Ok([i \in DOMAIN v |-> OrderResponseDto_from(v[i])]) : v \in HashMap_values(m)}

\* Mutant of update_status_map: only a pending order takes a new status.
update_status_map_from_pending(m, id, status) ==
    IF HashMap_contains(m, id) /\ m[id].status = "pending"
    THEN [m EXCEPT ![id].status = status] ELSE m

\* Mutant of update_status_map: the order replaced by a fresh one with the new status.
update_status_map_replace(m, id, status) ==
    IF HashMap_contains(m, id) THEN [m EXCEPT ![id] = Order(id, "", << >>, status)] ELSE m

\* Mutant of update_status_map: an absent order is inserted (entry().or_insert()).
update_status_map_upsert(m, id, status) ==
    IF HashMap_contains(m, id) THEN [m EXCEPT ![id].status = status]
    ELSE HashMap_insert(m, id, Order(id, "Alice", <<"A", "B">>, status))

\* update_status under the write lock: order.status = data.status through get_mut.
update_status_map(m, id, status) ==
    IF HashMap_contains(m, id) THEN [m EXCEPT ![id].status = status] ELSE m

update_status_ret(m, id, status) ==
    IF HashMap_contains(m, id)
    THEN Ok(<<OrderResponseDto_from(update_status_map(m, id, status)[id])>>)
    ELSE NotFound

\* Mutant of delete_order_map: the whole map is cleared (map.clear()).
delete_order_map_clear(m, id) == IF HashMap_contains(m, id) THEN HashMap_new ELSE m

\* Mutant of delete_order_map: the entry is left in the map.
delete_order_map_keep(m, id) == m

\* Mutant of delete_order_ret: the Option returned by remove is ignored.
delete_order_ret_always_ok(m, id) == Ok(<< >>)

\* delete_order under the write lock: map.remove(&id).
delete_order_map(m, id) == HashMap_remove(m, id)

delete_order_ret(m, id) == IF HashMap_contains(m, id) THEN Ok(<< >>) ELSE NotFound

\* ---------------------------------------------------------------- requests
\* raced is the observer's mark on a request in flight: the kinds of operation
\* (update, delete) that have succeeded on the same id since it was called.
Request(op, id, customer, items, status) ==
    [op |-> op, id |-> id, customer |-> customer, items |-> items, status |-> status,
     raced |-> {}]

NoRequest == Request("none", NoId, "", << >>, "")

\* The requests in flight once task p has returned x for its request: p has none, and
\* the others on the same id are marked when x is a successful update or delete.
Raced(rq, inflight, p, x) ==
    [q \in Task |->
        IF q = p THEN NoRequest
        ELSE IF /\ q \in inflight
                /\ rq[p].op \in {"update", "delete"}
                /\ x.tag = "Ok"
                /\ rq[q].id = rq[p].id
             THEN [rq[q] EXCEPT !.raced = @ \cup {rq[p].op}]
             ELSE rq[q]]

NoneDone ==
    [task |-> 0, req |-> NoRequest, ret |-> RetNone, before |-> << >>, exp |-> {},
     resp |-> NoResponse]

WriteOps == {"create", "update", "delete"}

\* Mutant of lock_mode: delete_order taking db.read() instead of db.write().
lock_mode_delete_shared(op) == IF op \in {"create", "update"} THEN "write" ELSE "read"

\* The mode each operation asks the RwLock for: db.write() in create_order,
\* update_status and delete_order, db.read() in get_order and list_orders.
lock_mode(op) == IF op \in WriteOps THEN "write" ELSE "read"

\* Mutant of RwLock_can_grant: a writer is let in while readers hold the lock.
RwLock_can_grant_over_readers(mode, rs, ws) == ws = {}

\* tokio's RwLock: a reader is let in when no writer holds the lock, a writer when
\* nobody holds it.
RwLock_can_grant(mode, rs, ws) == ws = {} /\ (mode = "write" => rs = {})

\* Mutant of RwLock_release: the guard of p outlives the operation.
RwLock_release_leak(holders, p) == holders

\* The guard of p is dropped: p holds the lock no longer.
RwLock_release(holders, p) == holders \ {p}

\* ---------------------------------------------------------------- one operation, run alone
\* The map a request that has passed its validation leaves, run on m with no other
\* operation in between.
store_map(m, r) ==
    CASE r.op = "create" ->
            create_order_map(m, create_order_order(r.id, [customer |-> r.customer,
                                                          items |-> r.items]))
      [] r.op = "update" -> update_status_map(m, r.id, r.status)
      [] r.op = "delete" -> IF HashMap_contains(m, r.id) THEN delete_order_map(m, r.id) ELSE m
      [] OTHER -> m

\* The results it may return.
store_rets(m, r) ==
    CASE r.op = "create" ->
            {create_order_ret(m, create_order_order(r.id, [customer |-> r.customer,
                                                           items |-> r.items]))}
      [] r.op = "get" -> {get_order_ret(m, r.id)}
      [] r.op = "list" -> list_orders_rets(m)
      [] r.op = "update" -> {update_status_ret(m, r.id, r.status)}
      [] r.op = "delete" -> {delete_order_ret(m, r.id)}
      [] OTHER -> {}

LinInit == [map |-> HashMap_new, exp |-> [p \in Task |-> {}]]

\* ---------------------------------------------------------------- the observer
\* What a client that sees every completed request and its response has learnt:
\* created: the response of each successful create, by returned id;
\* last[id]: the last successful create/update/delete answered for id, the status that
\*   response carried, and whether an update of id was rejected as invalid since;
\* ncreated, ndeleted: how many creates and deletes have succeeded.
NoLast == [op |-> "none", status |-> "", rejected |-> FALSE]

\* deletes[id]: how many deletes of id have succeeded since id was last created.
HistInit ==
    [created |-> << >>, last |-> [i \in Uuid |-> NoLast], ncreated |-> 0, ndeleted |-> 0,
     deletes |-> [i \in Uuid |-> 0]]

Observe(h, r, x) ==
    CASE r.op = "create" /\ x.tag = "Ok" ->
            LET dto == x.val[1] IN
            [h EXCEPT !.created = HashMap_insert(h.created, dto.id, dto),
                      !.last[dto.id] = [op |-> "create", status |-> dto.status,
                                        rejected |-> FALSE],
                      !.ncreated = @ + 1,
                      !.deletes[dto.id] = 0]
      [] r.op = "update" /\ x.tag = "Ok" ->
            [h EXCEPT !.last[r.id] = [op |-> "update", status |-> x.val[1].status,
                                      rejected |-> FALSE]]
      [] r.op = "update" /\ x.tag = "Validation" ->
            [h EXCEPT !.last[r.id].rejected = TRUE]
      [] r.op = "delete" /\ x.tag = "Ok" ->
            [h EXCEPT !.last[r.id] = [op |-> "delete", status |-> "", rejected |-> FALSE],
                      !.ndeleted = @ + 1,
                      !.deletes[r.id] = @ + 1]
      [] OTHER -> h

\* ---------------------------------------------------------------- state machine
Init ==
    /\ map = HashMap_new
    /\ readers = {}
    /\ writers = {}
    /\ waiters = << >>
    /\ pc = [p \in Task |-> "idle"]
    /\ req = [p \in Task |-> NoRequest]
    /\ done = NoneDone
    /\ generated = {}
    /\ ncalls = 0
    /\ hist = HistInit
    /\ lin = LinInit

\* A new request is served by the first task that serves none.
CanCall(p) ==
    /\ pc[p] = "idle"
    /\ \A q \in Task : q < p => pc[q] # "idle"
    /\ ncalls < MaxCalls

\* Task p's operation r returns x.
Return(p, r, x) ==
    /\ done' = [task |-> p, req |-> r, ret |-> x, before |-> map, exp |-> lin.exp[p],
                resp |-> handler_response(r.op, x)]
    /\ hist' = Observe(hist, r, x)

\* The operation returns r without having touched the lock or the map.
ReturnEarly(p, r, x) ==
    /\ Return(p, r, x)
    /\ UNCHANGED <<map, readers, writers, waiters, pc, req, lin>>

\* The operation reaches db.read().await / db.write().await and is suspended on the lock.
Suspend(p, r) ==
    /\ req' = [req EXCEPT ![p] = r]
    /\ pc' = [pc EXCEPT ![p] = "wait"]
    /\ waiters' = Append(waiters, p)
    /\ done' = NoneDone
    /\ UNCHANGED <<map, readers, writers, hist, lin>>

\* create_order up to db.write().await (db.rs 13-21), the id drawn from ids; req
\* keeps the dto and the id drawn for the order, which is built from them.
CallCreateFrom(p, ids) ==
    /\ CanCall(p)
    /\ ncalls' = ncalls + 1
    /\ \E customer \in Customers, items \in ItemSeqs :
          LET data == [customer |-> customer, items |-> items]
              early == create_order_early(data)
          IN  IF early # RetNone
              THEN /\ ReturnEarly(p, Request("create", NoId, customer, items, ""), early)
                   /\ UNCHANGED generated
              ELSE \E id \in ids :
                      /\ generated' = generated \cup {id}
                      /\ Suspend(p, Request("create", id, customer, items, ""))

CallCreate(p) == CallCreateFrom(p, Uuid_new_v4)

\* create_order when the id drawn may collide with an earlier one.
CallCreateCollide(p) == CallCreateFrom(p, Uuid_new_v4_any)

\* get_order up to db.read().await (db.rs 29-30).
CallGet(p) ==
    /\ CanCall(p)
    /\ ncalls' = ncalls + 1
    /\ \E id \in Uuid : Suspend(p, Request("get", id, "", << >>, ""))
    /\ UNCHANGED generated

\* list_orders up to db.read().await (db.rs 38-39).
CallList(p) ==
    /\ CanCall(p)
    /\ ncalls' = ncalls + 1
    /\ Suspend(p, Request("list", NoId, "", << >>, ""))
    /\ UNCHANGED generated

\* update_status up to db.write().await (db.rs 47-48).
CallUpdate(p) ==
    /\ CanCall(p)
    /\ ncalls' = ncalls + 1
    /\ \E id \in Uuid, status \in StatusInputs :
          LET data == [status |-> status]
              early == update_status_early(map, id, data)
              r == Request("update", id, "", << >>, status)
          IN  IF early # RetNone THEN ReturnEarly(p, r, early) ELSE Suspend(p, r)
    /\ UNCHANGED generated

\* delete_order up to db.write().await (db.rs 58).
CallDelete(p) ==
    /\ CanCall(p)
    /\ ncalls' = ncalls + 1
    /\ \E id \in Uuid : Suspend(p, Request("delete", id, "", << >>, ""))
    /\ UNCHANGED generated

\* A request that an extractor of its handler refuses (routes.rs 33, 44-45, 51: the
\* {id} segment is no UUID; routes.rs 28, 45: the body is no JSON of the dto): the
\* handler body does not run and no store operation is called.
CallRejected(p) ==
    /\ CanCall(p)
    /\ ncalls' = ncalls + 1
    /\ \E by \in {"path", "json"} :
          \E op \in (IF by = "path" THEN {"get", "update", "delete"} ELSE {"create", "update"}) :
             \E resp \in extractor_rejections(by) :
                done' = [task |-> p, req |-> Request(op, NoId, "", << >>, ""),
                         ret |-> Rejected(by), before |-> map, exp |-> {}, resp |-> resp]
    /\ UNCHANGED <<map, readers, writers, waiters, pc, req, generated, hist, lin>>

\* tokio's RwLock grants the lock in arrival order: the first waiter gets it, in
\* exclusive mode when nobody holds it, in shared mode when no writer holds it.
Acquire(p) ==
    /\ pc[p] = "wait"
    /\ waiters # << >>
    /\ Head(waiters) = p
    /\ RwLock_can_grant(lock_mode(req[p].op), readers, writers)
    /\ IF lock_mode(req[p].op) = "write"
       THEN /\ writers' = {p}
            /\ UNCHANGED readers
       ELSE /\ readers' = readers \cup {p}
            /\ UNCHANGED writers
    /\ waiters' = Tail(waiters)
    /\ pc' = [pc EXCEPT ![p] = "locked"]
    /\ done' = NoneDone
    /\ lin' = [map |-> store_map(lin.map, req[p]),
               exp |-> [lin.exp EXCEPT ![p] = store_rets(lin.map, req[p])]]
    /\ UNCHANGED <<map, req, generated, ncalls, hist>>

\* The rest of an operation, from the granted lock to its return: the guard is
\* dropped and the result returned with no suspension point in between.
Complete(p, m, x) ==
    /\ map' = m
    /\ Return(p, req[p], x)
    /\ readers' = RwLock_release(readers, p)
    /\ writers' = RwLock_release(writers, p)
    /\ pc' = [pc EXCEPT ![p] = "idle"]
    /\ req' = Raced(req, {q \in Task : pc[q] # "idle"}, p, x)
    /\ lin' = [lin EXCEPT !.exp[p] = {}]
    /\ UNCHANGED <<waiters, generated, ncalls>>

\* The task of p is dropped while its operation is suspended in db.read().await or
\* db.write().await: still queued, or granted the lock and not resumed yet. The
\* pending acquisition leaves the queue and gives back what it was granted; the body
\* of the operation does not run and nothing is returned.
Drop(p) ==
    /\ pc[p] \in {"wait", "locked"}
    /\ waiters' = SelectSeq(waiters, LAMBDA q : q # p)
    /\ readers' = RwLock_release(readers, p)
    /\ writers' = RwLock_release(writers, p)
    /\ pc' = [pc EXCEPT ![p] = "idle"]
    /\ req' = [req EXCEPT ![p] = NoRequest]
    /\ done' = [task |-> p, req |-> req[p], ret |-> Dropped(pc[p]), before |-> map, exp |-> {},
                resp |-> NoResponse]
    /\ lin' = [map |-> IF p \in writers THEN map ELSE lin.map,
               exp |-> [lin.exp EXCEPT ![p] = {}]]
    /\ UNCHANGED <<map, generated, ncalls, hist>>

\* create_order, db.rs 22-25.
FinishCreate(p) ==
    /\ pc[p] = "locked"
    /\ req[p].op = "create"
    /\ LET data == [customer |-> req[p].customer, items |-> req[p].items]
           order == create_order_order(req[p].id, data)
       IN  Complete(p, create_order_map(map, order), create_order_ret(map, order))

\* get_order, db.rs 31-34.
FinishGet(p) ==
    /\ pc[p] = "locked"
    /\ req[p].op = "get"
    /\ Complete(p, map, get_order_ret(map, req[p].id))

\* list_orders, db.rs 40-43.
FinishList(p) ==
    /\ pc[p] = "locked"
    /\ req[p].op = "list"
    /\ \E x \in list_orders_rets(map) : Complete(p, map, x)

\* update_status, db.rs 49-54.
FinishUpdate(p) ==
    /\ pc[p] = "locked"
    /\ req[p].op = "update"
    /\ Complete(p, update_status_map(map, req[p].id, req[p].status),
                   update_status_ret(map, req[p].id, req[p].status))

\* delete_order, db.rs 59-64.
FinishDelete(p) ==
    /\ pc[p] = "locked"
    /\ req[p].op = "delete"
    /\ Complete(p, IF HashMap_contains(map, req[p].id)
                   THEN delete_order_map(map, req[p].id) ELSE map,
                   delete_order_ret(map, req[p].id))

Next ==
    \E p \in Task :
        \/ CallCreate(p)
        \/ CallGet(p)
        \/ CallList(p)
        \/ CallUpdate(p)
        \/ CallDelete(p)
        \/ Acquire(p)
        \/ FinishCreate(p)
        \/ FinishGet(p)
        \/ FinishList(p)
        \/ FinishUpdate(p)
        \/ FinishDelete(p)

Spec == Init /\ [][Next]_vars

\* The operations behind their routes: a request may be refused by an extractor.
NextRoutes == Next \/ \E p \in Task : CallRejected(p)

SpecRoutes == Init /\ [][NextRoutes]_vars

\* The operations with tasks that may be dropped while suspended.
NextDrop == Next \/ \E p \in Task : Drop(p)

SpecDrop == Init /\ [][NextDrop]_vars

\* The lock is fair and a task that is not dropped is polled again once it can go on.
SpecFair ==
    /\ SpecDrop
    /\ \A p \in Task :
          /\ WF_vars(Acquire(p))
          /\ WF_vars(FinishCreate(p))
          /\ WF_vars(FinishGet(p))
          /\ WF_vars(FinishList(p))
          /\ WF_vars(FinishUpdate(p))
          /\ WF_vars(FinishDelete(p))

\* ---------------------------------------------------------------- responses alone
\* The dtos and errors a handler can hold as the result of its store operation.
Dtos ==
    {OrderResponseDto_from(Order(id, c, i, st)) :
        id \in Uuid, c \in Customers \ {""}, i \in ItemSeqs \ {<< >>},
        st \in STATUS_REGEX_alternatives}

FieldErrors ==
    {<<"customer", "customer name must not be empty">>,
     <<"items", "at least one item required">>,
     <<"status", "invalid status">>}

ApiErrors ==
    {NotFound, Internal}
    \cup {BadRequest(m) : m \in {"invalid id", "expected value at line 1 column 1"}}
    \cup {Validation(errs) : errs \in (SUBSET FieldErrors) \ {{}}}

HandlerResults ==
    {<<op, Ok(<<d>>)>> : op \in {"create", "get", "update"}, d \in Dtos}
    \cup {<<"list", Ok(<< >>)>>, <<"delete", Ok(<< >>)>>}
    \cup {<<"list", Ok(<<q[1], q[2]>>)>> : q \in {r \in Dtos \X Dtos : r[1].id # r[2].id}}
    \cup {<<op, e>> : op \in {"create", "get", "list", "update", "delete"}, e \in ApiErrors}

\* A handler holds a result and has not answered yet.
InitHttp ==
    /\ map = HashMap_new
    /\ readers = {}
    /\ writers = {}
    /\ waiters = << >>
    /\ pc = [p \in Task |-> "idle"]
    /\ req = [p \in Task |-> NoRequest]
    /\ generated = {}
    /\ ncalls = 0
    /\ hist = HistInit
    /\ lin = LinInit
    /\ \E h \in HandlerResults :
          done = [NoneDone EXCEPT !.task = 1, !.req = Request(h[1], NoId, "", << >>, ""),
                                  !.ret = h[2]]

\* The handler answers: Ok(..) as 200, Err(e) through e.into_response().
Respond ==
    /\ done.ret.tag # "None"
    /\ done.resp = NoResponse
    /\ done' = [done EXCEPT !.resp = handler_response(done.req.op, done.ret)]
    /\ UNCHANGED <<map, readers, writers, waiters, pc, req, generated, ncalls, hist, lin>>

SpecHttp == InitHttp /\ [][Respond]_vars

\* The same operations with colliding ids allowed.
NextCollide ==
    \E p \in Task :
        \/ CallCreateCollide(p)
        \/ CallGet(p)
        \/ CallList(p)
        \/ CallUpdate(p)
        \/ CallDelete(p)
        \/ Acquire(p)
        \/ FinishCreate(p)
        \/ FinishGet(p)
        \/ FinishList(p)
        \/ FinishUpdate(p)
        \/ FinishDelete(p)

SpecCollide == Init /\ [][NextCollide]_vars

\* ---------------------------------------------------------------- properties
\* The four permitted status values, as the specification lists them.
PermittedStatuses == {"pending", "shipped", "delivered", "cancelled"}

\* A create input is valid: non-empty customer, at least one item.
ValidCreateInput(r) == r.customer # "" /\ r.items # << >>

\* The store operation of kind op returned in the last step.
Returned(op) ==
    done.task # 0 /\ done.req.op = op /\ done.ret.tag \notin {"Rejected", "Dropped"}

\* The single dto of a successful create / get / update.
RetDto == done.ret.val[1]

RetOkDto == done.ret.tag = "Ok" /\ Len(done.ret.val) = 1

\* C1: every valid create succeeds and returns the input's customer, the input's
\* items in the same order and status "pending"; a get of the returned id, with no
\* update or delete of that id since the create, returns the same id, customer,
\* items and status "pending".
C1_CreateThenGet ==
    /\ (Returned("create") /\ ValidCreateInput(done.req)) =>
            /\ RetOkDto
            /\ RetDto.id \in Uuid
            /\ RetDto.customer = done.req.customer
            /\ RetDto.items = done.req.items
            /\ RetDto.status = "pending"
    /\ (Returned("get") /\ hist.last[done.req.id].op = "create") =>
            /\ RetOkDto
            /\ RetDto = hist.created[done.req.id]
            /\ RetDto.id = done.req.id
            /\ RetDto.status = "pending"

\* C1 witness: a get of a created, never updated or deleted order has returned it.
C1_Witness ==
    /\ Returned("get")
    /\ hist.last[done.req.id].op = "create"
    /\ done.ret.tag = "Ok"
    /\ RetDto.items = <<"B", "A">>

\* C2: with no delete so far, list returns exactly as many orders as creates have
\* succeeded, and their ids are the ids those creates returned.
C2_ListAfterCreates ==
    (Returned("list") /\ hist.ndeleted = 0) =>
        /\ done.ret.tag = "Ok"
        /\ Len(done.ret.val) = hist.ncreated
        /\ {done.ret.val[i].id : i \in 1 .. Len(done.ret.val)} = DOMAIN hist.created

\* C2 witness: a list after two creates and no delete has returned.
C2_Witness ==
    /\ Returned("list")
    /\ hist.ndeleted = 0
    /\ hist.ncreated = 2
    /\ Len(done.ret.val) = 2

\* C2 witness for N = 0: a list of the empty store.
C2_WitnessEmpty == Returned("list") /\ hist.ncreated = 0 /\ done.ret = Ok(<< >>)

\* C3: an update of a stored order with a permitted status s, whatever the order's
\* status, succeeds and returns the order with status s and the same id; a get of
\* that id with no update or delete since returns status s.
C3_UpdateThenGet ==
    /\ (Returned("update") /\ done.req.status \in PermittedStatuses
            /\ done.req.id \in DOMAIN done.before) =>
            /\ RetOkDto
            /\ RetDto.status = done.req.status
            /\ RetDto.id = done.req.id
    /\ (Returned("get") /\ hist.last[done.req.id].op = "update") =>
            /\ RetOkDto
            /\ RetDto.id = done.req.id
            /\ RetDto.status = hist.last[done.req.id].status

\* C3 witness: an order that was not pending has been given another status.
C3_Witness ==
    /\ Returned("update")
    /\ done.req.id \in DOMAIN done.before
    /\ done.before[done.req.id].status = "cancelled"
    /\ done.ret.tag = "Ok"
    /\ RetDto.status = "shipped"

\* C3 witness: a get after a successful update has returned the updated status.
C3_WitnessGet ==
    /\ Returned("get")
    /\ hist.last[done.req.id].op = "update"
    /\ done.ret.tag = "Ok"
    /\ RetDto.status = "delivered"

\* C4: a delete of a stored order succeeds; from then on the id is absent from the
\* store and a get of it returns NotFound.
C4_DeleteThenGet ==
    /\ (Returned("delete") /\ done.req.id \in DOMAIN done.before) => done.ret = Ok(<< >>)
    /\ (Returned("get") /\ hist.last[done.req.id].op = "delete") => done.ret = NotFound
    /\ \A id \in Uuid : hist.last[id].op = "delete" => ~HashMap_contains(map, id)

\* C4 witness: a get of a deleted order has returned NotFound.
C4_Witness ==
    /\ Returned("get")
    /\ hist.last[done.req.id].op = "delete"
    /\ done.ret = NotFound

\* C5: for an id no create has returned, get, update with a permitted status and
\* delete return NotFound and leave the store as it was.
C5_UnknownIdNotFound ==
    (/\ (Returned("get") \/ Returned("update") \/ Returned("delete"))
     /\ done.req.id \notin DOMAIN hist.created
     /\ (done.req.op = "update" => done.req.status \in PermittedStatuses)) =>
        /\ done.ret = NotFound
        /\ map = done.before

\* C5 witness: a delete of a never created id returned NotFound from a non-empty store.
C5_Witness ==
    /\ Returned("delete")
    /\ done.req.id \notin DOMAIN hist.created
    /\ done.ret = NotFound
    /\ done.before # << >>

\* C5 witness: the same for update.
C5_WitnessUpdate ==
    /\ Returned("update")
    /\ done.req.id \notin DOMAIN hist.created
    /\ done.ret = NotFound
    /\ done.before # << >>

\* C6: a create whose input fails validation returns Validation and leaves the store
\* unchanged; it returns before the lock is touched, so no create with an invalid
\* input ever waits for or holds the lock.
C6_InvalidCreateRejected ==
    /\ (Returned("create") /\ ~ValidCreateInput(done.req)) =>
            /\ done.ret.tag = "Validation"
            /\ done.ret.errs # {}
            /\ map = done.before
            /\ pc[done.task] = "idle"
            /\ done.task \notin writers
    /\ \A p \in Task :
            (pc[p] \in {"wait", "locked"} /\ req[p].op = "create") => ValidCreateInput(req[p])

\* C6 witness: a create with no items was rejected while the store held an order.
C6_Witness ==
    /\ Returned("create")
    /\ done.req.customer = "Alice"
    /\ done.req.items = << >>
    /\ done.ret.tag = "Validation"
    /\ done.before # << >>

\* C7: an update whose status is not permitted returns Validation and leaves the
\* store unchanged; a later get of the targeted order shows the status of the last
\* successful create or update.
C7_InvalidUpdateRejected ==
    /\ (Returned("update") /\ done.req.status \notin PermittedStatuses) =>
            /\ done.ret.tag = "Validation"
            /\ map = done.before
    /\ (Returned("get") /\ hist.last[done.req.id].rejected
            /\ hist.last[done.req.id].op \in {"create", "update"}) =>
            /\ RetOkDto
            /\ RetDto.status = hist.last[done.req.id].status

\* C7 witness: a get after a rejected update of a stored order has returned.
C7_Witness ==
    /\ Returned("get")
    /\ hist.last[done.req.id].rejected
    /\ hist.last[done.req.id].op = "create"
    /\ done.ret.tag = "Ok"

\* C8: an update with a status that is not permitted, of an id absent from the
\* store, returns Validation, not NotFound.
C8_ValidationBeforeLookup ==
    (Returned("update") /\ done.req.status \notin PermittedStatuses
        /\ done.req.id \notin DOMAIN done.before) =>
        /\ done.ret.tag = "Validation"
        /\ done.ret.tag # "NotFound"

\* C8 witness: such an update was rejected as invalid.
C8_Witness ==
    /\ Returned("update")
    /\ done.req.status = "queued"
    /\ done.req.id \notin DOMAIN done.before
    /\ done.ret.tag = "Validation"

\* C9: every stored order has a non-empty customer, at least one item and a
\* permitted status.
C9_StoredOrdersValid ==
    \A id \in DOMAIN map :
        /\ map[id].customer # ""
        /\ map[id].items # << >>
        /\ map[id].status \in PermittedStatuses

\* C9 witness: the store holds two orders, one of them updated.
C9_Witness ==
    /\ Cardinality(DOMAIN map) = 2
    /\ \E id \in DOMAIN map : map[id].status = "delivered"

\* C10: a stored order has the id, customer and items its create returned; a
\* successful update changes the status of the addressed order and nothing else.
C10_OnlyStatusChanges ==
    /\ \A id \in DOMAIN map :
            /\ id \in DOMAIN hist.created
            /\ map[id].id = hist.created[id].id
            /\ map[id].customer = hist.created[id].customer
            /\ map[id].items = hist.created[id].items
    /\ (Returned("update") /\ done.ret.tag = "Ok") =>
            /\ DOMAIN map = DOMAIN done.before
            /\ \A k \in DOMAIN map : k # done.req.id => map[k] = done.before[k]
            /\ map[done.req.id].id = done.before[done.req.id].id
            /\ map[done.req.id].customer = done.before[done.req.id].customer
            /\ map[done.req.id].items = done.before[done.req.id].items
            /\ map[done.req.id].status = done.req.status

\* C10 witness: an update succeeded on one of two stored orders and changed its status.
C10_Witness ==
    /\ Returned("update")
    /\ done.ret.tag = "Ok"
    /\ Cardinality(DOMAIN map) = 2
    /\ map[done.req.id].status # done.before[done.req.id].status

\* C11: a create never overwrites: every order stored before a create returns is
\* still stored with the same fields after it, also when the id drawn for the new
\* order is the id of a stored order.
C11_CreateNeverOverwrites ==
    Returned("create") =>
        \A id \in DOMAIN done.before :
            /\ HashMap_contains(map, id)
            /\ map[id] = done.before[id]

\* C12: the operations are linearizable in the order in which they are granted the
\* lock: each result is one that the operation returns when the operations are run one
\* at a time in that order, and whenever no writer holds the lock the store is the
\* store that sequential run leaves.
C12_Linearizable ==
    /\ (done.task # 0 /\ done.ret.tag \notin {"Validation", "Rejected", "Dropped"}) =>
            done.ret \in done.exp
    /\ writers = {} => map = lin.map

\* C12 witness: an operation returned while another one held the lock with it.
C12_Witness ==
    /\ Returned("get")
    /\ done.ret.tag = "Ok"
    /\ \E q \in Task : q # done.task /\ pc[q] = "locked"

\* C13: an update and a delete of the same id, in flight together, are ordered by the
\* lock: when the delete succeeded first the update returns NotFound and the order
\* stays absent; when the update succeeded first the delete removes the updated order.
\* An update succeeds only on an order that is stored when it is granted the lock,
\* changes nothing when the order is absent and never adds an entry; a deleted id is
\* not stored again.
C13_UpdateVersusDelete ==
    /\ (Returned("update") /\ "delete" \in done.req.raced) =>
            /\ done.ret = NotFound
            /\ ~HashMap_contains(map, done.req.id)
    /\ (Returned("delete") /\ done.req.raced = {"update"}) =>
            /\ done.ret = Ok(<< >>)
            /\ ~HashMap_contains(map, done.req.id)
    /\ (Returned("update") /\ done.ret.tag = "Ok") =>
            /\ HashMap_contains(done.before, done.req.id)
            /\ HashMap_contains(map, done.req.id)
    /\ (Returned("update") /\ ~HashMap_contains(done.before, done.req.id)) => map = done.before
    /\ Returned("update") => DOMAIN map = DOMAIN done.before
    /\ \A id \in Uuid : hist.deletes[id] > 0 => ~HashMap_contains(map, id)

\* C13 witness: an update called before a delete of the same id succeeded has
\* returned NotFound.
C13_Witness ==
    /\ Returned("update")
    /\ "delete" \in done.req.raced
    /\ done.ret = NotFound

\* C13 witness: a delete called before an update of the same id succeeded has
\* removed the updated order.
C13_WitnessUpdateFirst ==
    /\ Returned("delete")
    /\ done.req.raced = {"update"}
    /\ done.ret = Ok(<< >>)
    /\ done.before[done.req.id].status = "shipped"

\* C20: of the deletes of one stored id that are in flight together, one succeeds and
\* every other returns NotFound and leaves the store as it is: no id is deleted
\* successfully twice, and a delete succeeds exactly when the id is stored.
C20_OneDeleteSucceeds ==
    /\ \A id \in Uuid : hist.deletes[id] <= 1
    /\ (Returned("delete") /\ "delete" \in done.req.raced) =>
            /\ done.ret = NotFound
            /\ map = done.before
    /\ Returned("delete") => (done.ret = Ok(<< >>) <=> HashMap_contains(done.before, done.req.id))
    /\ (Returned("delete") /\ done.ret = Ok(<< >>)) => ~HashMap_contains(map, done.req.id)

\* C20 witness: a delete called before another delete of the same id succeeded has
\* returned NotFound.
C20_Witness ==
    /\ Returned("delete")
    /\ "delete" \in done.req.raced
    /\ done.ret = NotFound
    /\ hist.deletes[done.req.id] = 1

\* C14: a response carries the status code of its outcome: 200 for success (delete
\* included), 404 for NotFound, 400 for BadRequest and Validation, 500 for Internal;
\* the error message is "Order not found", "Invalid input: <m>", "Validation failed",
\* "Internal server error"; details is null except for Validation.
C14_StatusCodes ==
    (done.resp # NoResponse /\ done.ret.tag \notin {"Rejected", "Dropped"}) =>
        /\ done.ret.tag = "Ok" => done.resp.code = 200
        /\ done.ret.tag = "NotFound" =>
                /\ done.resp.code = 404
                /\ done.resp.message = "Order not found"
                /\ done.resp.details.null
        /\ done.ret.tag = "BadRequest" =>
                /\ done.resp.code = 400
                /\ done.resp.message = "Invalid input: " \o done.ret.msg
                /\ done.resp.details.null
        /\ done.ret.tag = "Validation" =>
                /\ done.resp.code = 400
                /\ done.resp.message = "Validation failed"
                /\ ~done.resp.details.null
                /\ DOMAIN done.resp.details.fields = {e[1] : e \in done.ret.errs}
        /\ done.ret.tag = "Internal" =>
                /\ done.resp.code = 500
                /\ done.resp.message = "Internal server error"
                /\ done.resp.details.null
        /\ done.ret.tag # "Ok" => done.resp.kind = "json"

\* C14 witness: a BadRequest has been answered.
C14_Witness ==
    /\ done.ret.tag = "BadRequest"
    /\ done.resp.code = 400
    /\ done.resp.message = "Invalid input: invalid id"

\* C14 witnesses: Internal, Validation and a successful delete have been answered.
C14_WitnessInternal == done.ret.tag = "Internal" /\ done.resp.code = 500

C14_WitnessValidation == done.ret.tag = "Validation" /\ done.resp.code = 400

C14_WitnessDelete ==
    done.req.op = "delete" /\ done.ret.tag = "Ok" /\ done.resp.code = 200

\* C15: a request whose {id} segment is no UUID, or whose body cannot be decoded, is
\* answered as BadRequest: status 400 with the JSON error body of message
\* "Invalid input: <cause>" ("invalid id" for the id) and details null; the store
\* operation is not called.
C15_RejectedAsBadRequest ==
    (done.task # 0 /\ done.ret.tag = "Rejected") =>
        /\ done.resp.code = 400
        /\ done.resp.kind = "json"
        /\ \E cause \in {"invalid id", "expected value at line 1 column 1"} :
                done.resp = ApiError_into_response(BadRequest(cause))
        /\ done.ret.by = "path" => done.resp.message = "Invalid input: invalid id"
        /\ done.resp.details.null
        /\ map = done.before
        /\ pc[done.task] = "idle"

\* C15, the part the code has: a refused request calls no store operation and is
\* answered with a 4xx status.
C15_RejectedBeforeStore ==
    (done.task # 0 /\ done.ret.tag = "Rejected") =>
        /\ done.resp.code \in {400, 415, 422}
        /\ map = done.before
        /\ pc[done.task] = "idle"

\* C16: when a create input fails both rules the one Validation error reports both:
\* details has "customer name must not be empty" for customer and "at least one item
\* required" for items; details has entries for the fields that failed and no others.
C16_AllFailuresReported ==
    (Returned("create") /\ done.ret.tag = "Validation") =>
        LET F == done.resp.details.fields IN
        /\ ~done.resp.details.null
        /\ done.resp.message = "Validation failed"
        /\ DOMAIN F = {f \in {"customer", "items"} :
                            \/ f = "customer" /\ done.req.customer = ""
                            \/ f = "items" /\ done.req.items = << >>}
        /\ "customer" \in DOMAIN F => F["customer"] = <<"customer name must not be empty">>
        /\ "items" \in DOMAIN F => F["items"] = <<"at least one item required">>

\* C16 witness: a create with an empty customer and no items has been answered.
C16_Witness ==
    /\ Returned("create")
    /\ done.req.customer = ""
    /\ done.req.items = << >>
    /\ DOMAIN done.resp.details.fields = {"customer", "items"}

\* The ids whose entry differs between the map before the last step and the map now.
Changed ==
    {id \in DOMAIN map \cup DOMAIN done.before :
        ~(/\ id \in DOMAIN map
          /\ id \in DOMAIN done.before
          /\ map[id] = done.before[id])}

\* C17: a dropped operation leaves the map as it was; every operation changes at most
\* one entry of the map, the entry of its own id, and that change is a whole insert,
\* a whole status change or a whole removal; only a write operation that returns Ok
\* changes anything.
C17_NoPartialMutation ==
    /\ done.ret.tag = "Dropped" => map = done.before
    /\ done.task # 0 =>
          /\ Cardinality(Changed) <= 1
          /\ Changed # {} =>
                /\ Changed = {done.req.id}
                /\ done.ret.tag = "Ok"
                /\ done.req.op \in WriteOps
    /\ (Returned("create") /\ done.ret.tag = "Ok") =>
          /\ ~HashMap_contains(done.before, done.req.id)
          /\ HashMap_contains(map, done.req.id)
          /\ map[done.req.id] =
                Order(done.req.id, done.req.customer, done.req.items, "pending")
    /\ (Returned("update") /\ done.ret.tag = "Ok") =>
          /\ HashMap_contains(done.before, done.req.id)
          /\ map = [done.before EXCEPT ![done.req.id].status = done.req.status]
    /\ (Returned("delete") /\ done.ret.tag = "Ok") =>
          /\ HashMap_contains(done.before, done.req.id)
          /\ ~HashMap_contains(map, done.req.id)

\* C17 witness: a delete of a stored order was dropped after the lock was granted to
\* it, while another order is stored too; the store has both.
C17_Witness ==
    /\ done.ret.tag = "Dropped"
    /\ done.ret.at = "locked"
    /\ done.req.op = "delete"
    /\ HashMap_contains(map, done.req.id)
    /\ Cardinality(DOMAIN map) = 2

\* C17 witnesses: an update dropped while queued, and a delete that ran with two
\* orders stored.
C17_WitnessQueued ==
    /\ done.ret.tag = "Dropped"
    /\ done.ret.at = "wait"
    /\ done.req.op = "update"
    /\ HashMap_contains(map, done.req.id)

C17_WitnessDelete ==
    Returned("delete") /\ done.ret.tag = "Ok" /\ Cardinality(DOMAIN done.before) = 2

\* The tasks that hold the lock.
Holders == readers \cup writers

\* C18: get_order and list_orders hold the lock in shared mode, create_order,
\* update_status and delete_order in exclusive mode; several readers may hold it
\* together; while a writer holds it no other reader or writer does.
C18_LockDiscipline ==
    /\ \A p \in readers : pc[p] = "locked" /\ req[p].op \in {"get", "list"}
    /\ \A p \in writers : pc[p] = "locked" /\ req[p].op \in {"create", "update", "delete"}
    /\ \A p \in Task : pc[p] = "locked" => p \in Holders
    /\ readers \cap writers = {}
    /\ \A w \in writers : Holders = {w}

\* C18 witness: two readers hold the lock at once.
C18_Witness == Cardinality(readers) = 2 /\ writers = {}

\* C18 witness: a writer holds the lock and a reader waits behind it.
C18_WitnessWriter ==
    /\ writers # {}
    /\ \E p \in Task : pc[p] = "wait" /\ req[p].op \in {"get", "list"}

\* C19, the safety part: only the task that holds or waits is between call and return.
C19_Released ==
    /\ \A p \in Task : pc[p] = "idle" => p \notin Holders /\ req[p] = NoRequest
    /\ \A p \in Task : pc[p] = "wait" => p \notin Holders
    /\ \A p \in Task : (pc[p] = "wait") = (\E i \in DOMAIN waiters : waiters[i] = p)
    /\ \A i, j \in DOMAIN waiters : waiters[i] = waiters[j] => i = j
    /\ done.task # 0 => done.task \notin Holders /\ pc[done.task] = "idle"

\* C19, one acquisition: a task comes to hold the lock only from waiting for it, and
\* one that holds it goes on to nothing but its return or its drop.
C19_AcquiresOnce ==
    \A p \in Task :
        /\ (p \notin Holders /\ p \in Holders') => (pc[p] = "wait" /\ pc'[p] = "locked")
        /\ pc[p] = "locked" => pc'[p] \in {"locked", "idle"}
        /\ (pc[p] = "locked" /\ pc'[p] = "locked") => (p \in Holders')

\* C19: every operation acquires the lock at most once and holds nothing once it has
\* returned (Ok, NotFound, Validation) or was dropped; with a fair lock every
\* operation that was started returns unless it is dropped, so none waits for ever.
C19_ReleasedAndLive ==
    /\ []C19_Released
    /\ [][C19_AcquiresOnce]_vars
    /\ \A p \in Task : (pc[p] # "idle") ~> (pc[p] = "idle")

\* C19 witness: an update that held the lock has returned NotFound and holds nothing,
\* while another operation is waiting or running.
C19_Witness ==
    /\ Returned("update")
    /\ done.ret = NotFound
    /\ done.task \notin Holders
    /\ \E q \in Task : pc[q] # "idle"

\* C19 witness: both tasks wait for the lock while none holds it.
C19_WitnessQueue == Len(waiters) = NumTasks /\ Holders = {}

\* C21: a successful delete removes the entry of its id and no other, and every other
\* order is stored as before; get_order and list_orders leave the store as it was;
\* in every state the key of each entry is the id field of the order stored under it.
C21_FrameAndKeys ==
    /\ (Returned("delete") /\ done.ret.tag = "Ok") =>
          /\ DOMAIN map = DOMAIN done.before \ {done.req.id}
          /\ done.req.id \in DOMAIN done.before
          /\ \A k \in DOMAIN map : map[k] = done.before[k]
    /\ (Returned("get") \/ Returned("list")) => map = done.before
    /\ \A k \in DOMAIN map : map[k].id = k

\* C21 witness: one of two stored orders was deleted and the other is stored as before.
C21_Witness ==
    /\ Returned("delete")
    /\ done.ret.tag = "Ok"
    /\ Cardinality(DOMAIN done.before) = 2
    /\ \E k \in DOMAIN map : k # done.req.id /\ map[k] = done.before[k] /\ map[k].id = k

\* C21 witnesses: a get and a list have returned from a store that holds an order.
C21_WitnessGet == Returned("get") /\ done.ret.tag = "Ok" /\ map = done.before

C21_WitnessList == Returned("list") /\ map # HashMap_new /\ map = done.before

TypeOK ==
    /\ DOMAIN map \subseteq Uuid
    /\ readers \subseteq Task
    /\ writers \subseteq Task
    /\ pc \in [Task -> {"idle", "wait", "locked"}]
    /\ generated \subseteq Uuid
    /\ ncalls \in 0 .. MaxCalls

====
